---- MODULE Spec2Model ----
(***************************************************************************)
(* A model of vb.py (mark-summerfield/vb): the settings-file parser        *)
(* (read_ini), the source scanner (discover), the settings-file merge      *)
(* (maybe_update_ini / make_ini) and the Windows distribution assembler    *)
(* (make_win_dist).                                                        *)
(*                                                                         *)
(* Text is modelled by what the code looks at.  A settings-file line is a  *)
(* record of its pieces (comment prefix, key, separator, value); a source  *)
(* line is the sequence of its words.  Strings that the code compares or   *)
(* sorts are compared through their character codes.                       *)
(***************************************************************************)
EXTENDS Integers, Sequences, FiniteSets, TLC

None == "None"

(***************************************************************************)
(* Python dicts as functions.                                              *)
(***************************************************************************)
EmptyDict == [x \in {} |-> ""]

Put(d, k, v) == [x \in (DOMAIN d) \cup {k} |-> IF x = k THEN v ELSE d[x]]

Del(d, k) == [x \in (DOMAIN d) \ {k} |-> d[x]]

(***************************************************************************)
(* Character codes of the strings that end up in a Packages record, and    *)
(* Python's str ordering (code point by code point, a proper prefix        *)
(* first).                                                                 *)
(***************************************************************************)
Codes(s) ==
    CASE s = "" -> << >>
      [] s = "# " -> <<35, 32>>
      [] s = "#" -> <<35>>
      [] s = " = " -> <<32, 61, 32>>
      [] s = "=" -> <<61>>
      [] s = "Gee" -> <<71, 101, 101>>
      [] s = "Gio" -> <<71, 105, 111>>
      [] s = "Gtk" -> <<71, 116, 107>>
      [] s = "Foo" -> <<70, 111, 111>>
      [] s = "gee" -> <<103, 101, 101>>
      [] s = "GEE" -> <<71, 69, 69>>
      [] s = "aaa" -> <<97, 97, 97>>
      [] s = "gee-0.8" -> <<103, 101, 101, 45, 48, 46, 56>>
      [] s = "gee-1.0" -> <<103, 101, 101, 45, 49, 46, 48>>
      [] s = "gio-2.0" -> <<103, 105, 111, 45, 50, 46, 48>>
      [] s = "gtk+-3.0" -> <<103, 116, 107, 43, 45, 51, 46, 48>>
      [] s = "foo-1.0" -> <<102, 111, 111, 45, 49, 46, 48>>
      [] s = "zzz" -> <<122, 122, 122>>

RECURSIVE StrLess(_, _)
StrLess(a, b) ==
    IF b = << >> THEN FALSE
    ELSE IF a = << >> THEN TRUE
    ELSE IF Head(a) # Head(b) THEN Head(a) < Head(b)
    ELSE StrLess(Tail(a), Tail(b))

(***************************************************************************)
(* str.casefold(), str.upper() and str.title() on the section names and    *)
(* keys of the model.                                                      *)
(***************************************************************************)
Casefold(s) ==
    CASE s \in {"Gee", "gee", "GEE"} -> "gee"
      [] s \in {"Gio"} -> "gio"
      [] s \in {"Gtk"} -> "gtk"
      [] s \in {"Foo"} -> "foo"
      [] s \in {"Packages", "packages"} -> "packages"
      [] s \in {"ExtraFiles"} -> "extrafiles"
      [] s \in {"AppTemplate"} -> "apptemplate"
      [] s \in {"GUITemplate"} -> "guitemplate"
      [] s \in {"LibTemplate"} -> "libtemplate"
      [] s \in {"General"} -> "general"
      [] s \in {"Version", "version"} -> "version"
      [] s \in {"appname"} -> "appname"
      [] s \in {"winrcedit"} -> "winrcedit"
      [] s \in {"winmsys2"} -> "winmsys2"
      [] OTHER -> s

Upper(s) ==
    CASE s \in {"Packages", "packages"} -> "PACKAGES"
      [] s \in {"ExtraFiles"} -> "EXTRAFILES"
      [] s \in {"AppTemplate"} -> "APPTEMPLATE"
      [] s \in {"GUITemplate"} -> "GUITEMPLATE"
      [] s \in {"LibTemplate"} -> "LIBTEMPLATE"
      [] s \in {"General"} -> "GENERAL"
      [] OTHER -> s

Title(s) ==
    CASE s = "gee" -> "Gee"
      [] s = "gio" -> "Gio"
      [] s = "gtk" -> "Gtk"
      [] s = "foo" -> "Foo"
      [] OTHER -> s

(***************************************************************************)
(* Lines of a settings file.                                               *)
(*   header  "[" key "]"   h = "[", val = "]" ("" when the bracket is not  *)
(*                         closed)                                         *)
(*   item    h key eq val  h is the comment prefix ("" for an active       *)
(*                         record), eq the text around the one "="         *)
(*   text    key           a line without "=" (a glob, a template line)    *)
(*   blank                                                                 *)
(***************************************************************************)
Hdr(name) == [k |-> "hdr", h |-> "[", key |-> name, eq |-> "", val |-> "]"]

OpenHdr(name) == [k |-> "hdr", h |-> "[", key |-> name, eq |-> "", val |-> ""]

Item(h, key, eq, val) == [k |-> "item", h |-> h, key |-> key, eq |-> eq, val |-> val]

Text(s) == [k |-> "text", h |-> "", key |-> s, eq |-> "", val |-> ""]

Blank == [k |-> "blank", h |-> "", key |-> "", eq |-> "", val |-> ""]

Comment(s) == [k |-> "text", h |-> "# ", key |-> s, eq |-> "", val |-> ""]

(***************************************************************************)
(* Module-level values of vb.py.                                           *)
(***************************************************************************)
DefaultPackages ==
    [n \in {"Gee", "Gio", "Gtk"} |->
        CASE n = "Gee" -> "gee-0.8" [] n = "Gio" -> "gio-2.0" [] n = "Gtk" -> "gtk+-3.0"]

GIO == "Gio"

APP_TEMPLATE == <<Text("app-builtin")>>

GUI_TEMPLATE == <<Text("gui-builtin")>>

LIB_TEMPLATE == << >>

TemplateCategories == {"APP_TEMPLATE", "GUI_TEMPLATE", "LIB_TEMPLATE"}

(* Model.__init__ *)
NewModel ==
    [appname |-> None, run |-> TRUE, archive |-> FALSE, packages |-> EmptyDict,
     version |-> None, extra_files |-> <<"README", "LICENSE">>,
     winrcedit |-> "C:/bin/rcedit.exe", winmsys2 |-> "C:/bin/msys64",
     app_template |-> APP_TEMPLATE, gui_template |-> GUI_TEMPLATE,
     lib_template |-> LIB_TEMPLATE]

(***************************************************************************)
(* glob.glob(pattern) on the project directory, which does not change.     *)
(***************************************************************************)
Glob(line) ==
    CASE line.k = "text" /\ line.key = "README*" -> <<"README.md">>
      [] line.k = "text" /\ line.key = "*.png" -> <<"a.png", "b.png">>
      [] OTHER -> << >>

(***************************************************************************)
(* read_ini and its helpers work on a context c:                           *)
(*   c.self      the Model instance                                        *)
(*   c.Packages  the module-level registry                                 *)
(*   c.category  read_ini's local variable                                 *)
(*   c.err       the exception that ended the read, or None                *)
(***************************************************************************)
add_template_line(c, category, line) ==
    CASE category = "APP_TEMPLATE" ->
            [c EXCEPT !.self.app_template = Append(@, line)]
      [] category = "GUI_TEMPLATE" ->
            [c EXCEPT !.self.gui_template = Append(@, line)]
      [] category = "LIB_TEMPLATE" ->
            [c EXCEPT !.self.lib_template = Append(@, line)]
      [] OTHER -> c

(* read_ini_category without the reset of extra_files. *)
read_ini_category_keeps(c, line) ==
    IF line.val = "]"
    THEN LET category == Casefold(line.key) IN
         CASE category = "packages" -> [c EXCEPT !.category = "PACKAGES"]
           [] category = "extrafiles" -> [c EXCEPT !.category = "EXTRA_FILES"]
           [] category = "apptemplate" ->
                 [c EXCEPT !.category = "APP_TEMPLATE", !.self.app_template = << >>]
           [] category = "guitemplate" ->
                 [c EXCEPT !.category = "GUI_TEMPLATE", !.self.gui_template = << >>]
           [] category = "libtemplate" ->
                 [c EXCEPT !.category = "LIB_TEMPLATE", !.self.lib_template = << >>]
           [] OTHER -> [c EXCEPT !.category = "GENERAL"]
    ELSE c

read_ini_category(c, line) ==
    IF line.val = "]"
    THEN LET category == Casefold(line.key) IN
         CASE category = "packages" -> [c EXCEPT !.category = "PACKAGES"]
           [] category = "extrafiles" ->
                 [c EXCEPT !.self.extra_files = << >>, !.category = "EXTRA_FILES"]
           [] category = "apptemplate" ->
                 [c EXCEPT !.category = "APP_TEMPLATE", !.self.app_template = << >>]
           [] category = "guitemplate" ->
                 [c EXCEPT !.category = "GUI_TEMPLATE", !.self.gui_template = << >>]
           [] category = "libtemplate" ->
                 [c EXCEPT !.category = "LIB_TEMPLATE", !.self.lib_template = << >>]
           [] OTHER -> [c EXCEPT !.category = "GENERAL"]
    ELSE c

set_general_item(c, key, value) ==
    CASE key = "appname" -> [c EXCEPT !.self.appname = value]
      [] key = "version" -> [c EXCEPT !.self.version = value]
      [] key = "winrcedit" -> [c EXCEPT !.self.winrcedit = value]
      [] key = "winmsys2" -> [c EXCEPT !.self.winmsys2 = value]
      [] OTHER -> c

(* Packages.pop(key): a KeyError when key is not in the registry. *)
PackagesPop(c, key) ==
    IF key \in DOMAIN c.Packages
    THEN [c EXCEPT !.Packages = Del(@, key)]
    ELSE [c EXCEPT !.err = "KeyError"]

read_ini_item(c, line, master) ==
    IF c.category \in TemplateCategories
    THEN add_template_line(c, c.category, line)
    ELSE IF c.category = "EXTRA_FILES"
    THEN [c EXCEPT !.self.extra_files = @ \o Glob(line)]
    ELSE IF line.k = "item"
    THEN LET key == Casefold(line.key)
             value == line.val
         IN  IF c.category = "PACKAGES"
             THEN IF master
                  THEN [c EXCEPT !.Packages = Put(@, Title(key), value)]
                  ELSE PackagesPop(
                         [c EXCEPT !.self.packages = Put(@, Title(key), value)],
                         Title(key))
             ELSE set_general_item(c, key, value)
    ELSE c

(* The body of read_ini's loop for one line. *)
read_ini_line(c, line, master) ==
    IF line.k # "hdr" /\ c.category \in TemplateCategories
    THEN add_template_line(c, c.category, line)
    ELSE IF line.k = "blank" \/ line.h \in {"#", "# "}
    THEN c
    ELSE IF line.k = "hdr"
    THEN read_ini_category(c, line)
    ELSE read_ini_item(c, line, master)

RECURSIVE read_ini_from(_, _, _, _)
read_ini_from(c, lines, i, master) ==
    IF i > Len(lines) \/ c.err # None
    THEN c
    ELSE read_ini_from(read_ini_line(c, lines[i], master), lines, i + 1, master)

read_ini(self, registry, lines, master) ==
    read_ini_from([self |-> self, Packages |-> registry, category |-> "GENERAL",
                   err |-> None], lines, 1, master)

(***************************************************************************)
(* State.                                                                  *)
(***************************************************************************)
VARIABLES
    self,        \* the Model instance
    Packages,    \* the module-level registry (name -> resolver id)
    WIN,         \* sys.platform.startswith('win')
    argv,        \* the command-line words (sys.argv[1:]), as a set
    master_ini,  \* the master settings file: [exists, lines]
    ini,         \* vb.ini of the project: [exists, lines]
    valas,       \* the project's .vala files, each a sequence of lines
    pc,          \* where main() is
    err,         \* the exception that ended main(), or None
    category,    \* read_ini: the current category
    line,        \* read_ini: the line just read
    nread,       \* read_ini: lines read from the current file
    since,       \* history: the lines read since the header of an ExtraFiles
                 \* or template category was entered
    pkg_rx,      \* discover: the names in the compiled alternation
    vi,          \* discover: index in valas of the file being read (0: none)
    li,          \* discover: lines of that file already taken from it
    opened,      \* history: the files opened by discover, in order
    tested,      \* history: the <<file, line>> positions a pattern was tested on
    scanned,     \* history: the registry, the version and more_to_do() when
                 \* the scan started
    writes,      \* history: writes of vb.ini in this run
    old_ini,     \* history: the lines of vb.ini the merge of this run read
    computed,    \* history: the content maybe_update_ini / make_ini computed
    run_no,      \* history: 1 for the first run of the process, 2 for the second
    exe,         \* where the compiled binary is: "none", "root" or "dist"
    dist,        \* names of the files in ./dist, or None when it does not exist
    ldd,         \* the dependency lister's reply: [ran, rc, at, out]
    dll_i,       \* maybe_copy_win_dlls: lister lines already handled
    copied,      \* history: the lister paths whose library was copied
    steps,       \* history: the later stages of main() that were executed
    zip          \* the archive win_zip made: [made, target, entries]

progVars == <<self, Packages, WIN, argv, pc, err>>

diskVars == <<master_ini, ini, valas>>

iniVars == <<category, line, nread, since>>

scanVars == <<pkg_rx, vi, li, opened, tested, scanned>>

mergeVars == <<writes, old_ini, computed, run_no>>

distVars == <<exe, dist, ldd, dll_i, copied, steps, zip>>

vars == <<progVars, diskVars, iniVars, scanVars, mergeVars, distVars>>

NoFile == [exists |-> FALSE, lines |-> << >>]

NoLdd == [ran |-> FALSE, rc |-> 0, at |-> "none", out |-> << >>]

NoZip == [made |-> FALSE, target |-> None, entries |-> {}]

NotScanned == [begun |-> FALSE, Packages |-> EmptyDict, version |-> None, more |-> FALSE]

(* Everything but the program state and the settings files. *)
IdleScan ==
    /\ pkg_rx = {} /\ vi = 0 /\ li = 0 /\ opened = << >> /\ tested = {}
    /\ scanned = NotScanned

IdleMerge == writes = 0 /\ old_ini = << >> /\ computed = << >> /\ run_no = 1

IdleDist ==
    /\ exe = "none" /\ dist = None /\ ldd = NoLdd /\ dll_i = 0 /\ copied = {}
    /\ steps = {}
    /\ zip = NoZip

(***************************************************************************)
(* Reading the settings files line by line: main() reads the master file   *)
(* (maybe_read_master_ini), then get_appname reads vb.ini.  The lines are  *)
(* the input; each is drawn when the loop of read_ini takes it.            *)
(***************************************************************************)
MaxIniLines == 2

IniLines ==
    {Hdr("General"), Hdr("Packages"), Hdr("packages"), Hdr("ExtraFiles"),
     Hdr("AppTemplate"), Hdr("GUITemplate"), Hdr("LibTemplate"), Hdr("Other"),
     OpenHdr("ExtraFiles"),
     Item("", "gee", " = ", "gee-1.0"), Item("", "Foo", "=", "foo-1.0"),
     Item("# ", "Gio", " = ", "gio-2.0"), Item("", "winmsys2", " = ", "D:/msys64"),
     Text("README*"), Blank}

InitIni ==
    /\ self = NewModel
    /\ Packages = DefaultPackages
    /\ WIN \in BOOLEAN
    /\ argv = {}
    /\ master_ini \in {NoFile, [exists |-> TRUE, lines |-> << >>]}
    /\ ini = [exists |-> TRUE, lines |-> << >>]
    /\ valas = << >>
    /\ pc = IF master_ini.exists THEN "read_master" ELSE "read_local"
    /\ err = None
    /\ category = "GENERAL" /\ line = Blank /\ nread = 0 /\ since = << >>
    /\ IdleScan /\ IdleMerge /\ IdleDist

(* One iteration of the loop of read_ini(ini, master). *)
ReadLine(master) ==
    /\ nread < MaxIniLines
    /\ \E l \in IniLines :
         LET c == read_ini_line([self |-> self, Packages |-> Packages,
                                 category |-> category, err |-> None], l, master)
         IN  /\ line' = l
             /\ nread' = nread + 1
             /\ since' = IF l.k = "hdr" /\ l.val = "]" THEN << >>
                         ELSE IF category \in TemplateCategories \cup {"EXTRA_FILES"}
                         THEN Append(since, l)
                         ELSE << >>
             /\ self' = c.self
             /\ Packages' = c.Packages
             /\ category' = c.category
             /\ err' = c.err
             /\ pc' = IF c.err # None THEN "crashed" ELSE pc
    /\ UNCHANGED <<WIN, argv, diskVars, scanVars, mergeVars, distVars>>

ReadMasterLine == pc = "read_master" /\ ReadLine(TRUE)

(* The master file ends; main() goes on to get_appname, which reads vb.ini. *)
EndMaster ==
    /\ pc = "read_master"
    /\ pc' = "read_local"
    /\ category' = "GENERAL" /\ line' = Blank /\ nread' = 0 /\ since' = << >>
    /\ UNCHANGED <<self, Packages, WIN, argv, err, diskVars, scanVars, mergeVars, distVars>>

ReadLocalLine == pc = "read_local" /\ ReadLine(FALSE)

EndLocal ==
    /\ pc = "read_local"
    /\ pc' = "read_done"
    /\ UNCHANGED <<self, Packages, WIN, argv, err, diskVars, iniVars, scanVars, mergeVars,
                   distVars>>

NextIni == ReadMasterLine \/ EndMaster \/ ReadLocalLine \/ EndLocal

SpecIni == InitIni /\ [][NextIni]_vars

(***************************************************************************)
(* Source text.  A line of a .vala file is the sequence of its words; a    *)
(* line without a word character (a blank line, a lone brace) is << >>.    *)
(*   "Gee", "Gio", "Gtk"    a package name as a whole word                 *)
(*   "File."                 an idiom GIO_RX recognises                     *)
(*   "const-1.0"             const string VERSION = "1.0";                  *)
(***************************************************************************)
VersionOf(word) ==
    CASE word = "const-1.0" -> "1.0"
      [] word = "const-2.0" -> "2.0"
      [] OTHER -> None

RECURSIVE FirstIn(_, _, _)
FirstIn(words, i, S) ==
    IF i > Len(words) THEN 0
    ELSE IF words[i] \in S THEN i
    ELSE FirstIn(words, i + 1, S)

(* re.compile(START + '|'.join(names) + END).search(words): the leftmost   *)
(* name of the alternation; the empty alternation matches the empty string *)
(* at the first word boundary.  The result is match.group('pkg') or None.  *)
PkgSearch(names, words) ==
    IF names = {}
    THEN IF Len(words) > 0 THEN "" ELSE None
    ELSE LET i == FirstIn(words, 1, names) IN
         IF i = 0 THEN None ELSE words[i]

(* GIO_RX.search(words) is not None *)
GioSearch(words) == \E i \in DOMAIN words : words[i] = "File."

(* VERSION_RX.search(words): the captured literal or None *)
VersionSearch(words) ==
    LET hits == {i \in DOMAIN words : VersionOf(words[i]) # None} IN
    IF hits = {} THEN None
    ELSE VersionOf(words[CHOOSE i \in hits : \A j \in hits : i <= j])

(***************************************************************************)
(* discover().  Its scan works on a context s: s.self, s.Packages,         *)
(* s.pkg_rx (the names of the compiled alternation) and s.err.             *)
(***************************************************************************)
more_to_do(me, registry, win) ==
    \/ DOMAIN registry # {}
    \/ (win /\ me.archive /\ me.version = None)

update_packages(s, pkg) ==
    IF pkg \notin DOMAIN s.Packages
    THEN [s EXCEPT !.err = "KeyError"]
    ELSE LET rest == Del(s.Packages, pkg) IN
         [s EXCEPT !.self.packages = Put(@, pkg, s.Packages[pkg]),
                   !.Packages = rest,
                   !.pkg_rx = IF DOMAIN rest # {} THEN DOMAIN rest ELSE @]

(* The body of the loop over the lines of a file, past the first test. *)
scan_line(s, words) ==
    LET match == PkgSearch(s.pkg_rx, words) IN
    IF match # None
    THEN update_packages(s, match)
    ELSE IF GIO \in DOMAIN s.Packages /\ GioSearch(words)
    THEN update_packages(s, GIO)
    ELSE IF s.self.version = None /\ VersionSearch(words) # None
    THEN [s EXCEPT !.self.version = VersionSearch(words)]
    ELSE s

(* after_file without the test: the loop over the files goes on. *)
after_file_goes_on(more) == "scan_open"

(* After the lines of a file: `if not more_to_do(): break`. *)
after_file(more) == IF more THEN "scan_open" ELSE "merge"

(***************************************************************************)
(* The merge.  The dict `packages` of maybe_update_ini has string keys     *)
(* such as "Gee" and "# Gee"; here a key is the pair <<prefix, name>>, and *)
(* a line of the section the triple <<prefix, name, value>> that is        *)
(* rendered as prefix name " = " value.                                    *)
(***************************************************************************)
Render(t) == Codes(t[1]) \o Codes(t[2]) \o Codes(" = ") \o Codes(t[3])

RECURSIVE Sorted(_)
Sorted(lines) ==
    IF lines = {} THEN << >>
    ELSE LET first == CHOOSE t \in lines :
                          \A u \in lines \ {t} : StrLess(Render(t), Render(u))
         IN  <<first>> \o Sorted(lines \ {first})

SectionLine(t) == Item(t[1], t[2], " = ", t[3])

(* make_packages_section(packages), with the registry as it is now *)
make_packages_section(packages, registry) ==
    LET lines == {<<k[1], k[2], packages[k]>> : k \in DOMAIN packages}
                 \cup {<<"# ", n, registry[n]>> : n \in DOMAIN registry}
        body == Sorted(lines)
    IN  <<Hdr("Packages")>>
        \o (IF lines = {} THEN <<Blank>>
            ELSE [i \in 1..Len(body) |-> SectionLine(body[i])])

(* self.packages as the dict that make_packages_section is given *)
Active(pkgs) == [k \in {<<"", n>> : n \in DOMAIN pkgs} |-> pkgs[k[2]]]

(* make_ini: the content written to a vb.ini that did not exist *)
make_ini(me, registry) ==
    <<Hdr("General"), Blank, Hdr("ExtraFiles"), Blank>>
    \o make_packages_section(Active(me.packages), registry)

(* line.upper().startswith('[PACKAGES]') *)
IsPackagesHeader(l) == l.k = "hdr" /\ l.val = "]" /\ Upper(l.key) = "PACKAGES"

(* One iteration of the loop of maybe_update_ini over the old lines;       *)
(* u = [new, in_packages, packages].                                       *)
update_ini_line(u, l) ==
    IF u.in_packages
    THEN IF l.k = "item"
         THEN IF l.h # "" /\ <<"", l.key>> \notin DOMAIN u.packages
              THEN [u EXCEPT !.packages = Put(@, <<l.h, l.key>>, l.val)]
              ELSE [u EXCEPT !.packages = Put(@, <<"", l.key>>, l.val)]
         ELSE u
    ELSE IF ~IsPackagesHeader(l)
    THEN [u EXCEPT !.new = Append(@, l)]
    ELSE [u EXCEPT !.in_packages = TRUE]

RECURSIVE update_ini_from(_, _, _)
update_ini_from(u, old, i) ==
    IF i > Len(old) THEN u
    ELSE update_ini_from(update_ini_line(u, old[i]), old, i + 1)

(* The dict `packages` of maybe_update_ini after its loop. *)
merged_packages(me, old) ==
    update_ini_from([new |-> << >>, in_packages |-> FALSE,
                     packages |-> Active(me.packages)], old, 1).packages

(* maybe_update_ini: the content it computes (`new`) *)
maybe_update_ini(me, registry, old) ==
    LET u == update_ini_from([new |-> << >>, in_packages |-> FALSE,
                              packages |-> Active(me.packages)], old, 1)
    IN  u.new \o make_packages_section(u.packages, registry)

(***************************************************************************)
(* main() for the build action, up to the end of discover().  The inputs   *)
(* are the platform, the command line, the master settings file, vb.ini    *)
(* and the .vala files.  A second run of the program on the project, as a  *)
(* fresh process, follows the first.                                       *)
(***************************************************************************)
MaxSrcLines == 3

MaxPkgLines == 2

SeqsUpTo(S, n) == UNION {[1..k -> S] : k \in 0..n}

SrcLines ==
    {<< >>, <<"Gee", "Gtk">>, <<"File.">>, <<"const-1.0", "Gee">>, <<"const-2.0">>}

PkgLines ==
    {Item("", "Gee", " = ", "gee-0.8"), Item("", "Gee", "=", "aaa"),
     Item("# ", "Gee", " = ", "aaa"), Item("# ", "Gee", " = ", "gee-0.8"),
     Item("# ", "Gee", " = ", "zzz"), Item("#", "Gtk", " = ", "gtk+-3.0"),
     Item("", "gee", " = ", "gee-0.8")}

PkgFile(header, items) ==
    [exists |-> TRUE, lines |-> <<Hdr("General"), Hdr(header)>> \o items]

(* Projects that exercise the scan: any split of a few lines over one or   *)
(* two files (or no file at all), with a vb.ini that leaves three, one or  *)
(* no package pending.                                                     *)
ScanProjects ==
    LET texts == SeqsUpTo(SrcLines, MaxSrcLines)
        files == {<< >>} \cup {<<a>> : a \in texts}
                 \cup UNION {{<<a, b>> : b \in SeqsUpTo(SrcLines, MaxSrcLines - Len(a))} :
                                a \in texts}
        inis == {NoFile,
                 PkgFile("packages", <<Item("", "Gio", " = ", "gio-2.0"),
                                       Item("", "Gtk", " = ", "gtk+-3.0")>>),
                 PkgFile("Packages", <<Item("", "Gee", " = ", "gee-0.8"),
                                       Item("", "Gio", " = ", "gio-2.0"),
                                       Item("", "Gtk", " = ", "gtk+-3.0")>>)}
    IN  {[valas |-> v, ini |-> i, master_ini |-> NoFile] :
            v \in files, i \in inis}

(* Projects that exercise the merge: a vb.ini with a few Packages records, *)
(* one short source file, with or without a master file that adds a name.  *)
MergeProjects ==
    LET inis == {PkgFile("Packages", items) : items \in SeqsUpTo(PkgLines, MaxPkgLines)}
        masters == {NoFile,
                    [exists |-> TRUE,
                     lines |-> <<Hdr("Packages"), Item("", "foo", " = ", "foo-1.0")>>]}
    IN  {[valas |-> <<v>>, ini |-> i, master_ini |-> m] :
            v \in SeqsUpTo({<<"Gee">>, <<"Gee", "Gtk">>}, 1), i \in inis, m \in masters}

InitDiscover ==
    /\ self = NewModel
    /\ Packages = DefaultPackages
    /\ WIN \in BOOLEAN
    /\ argv \in SUBSET {"zip"}
    /\ \E p \in ScanProjects \cup MergeProjects :
          /\ valas = p.valas
          /\ ini = p.ini
          /\ master_ini = p.master_ini
    /\ pc = "main"
    /\ err = None
    /\ category = "GENERAL" /\ line = Blank /\ nread = 0 /\ since = << >>
    /\ IdleScan /\ IdleMerge /\ IdleDist

(* main(): Model(), maybe_read_master_ini(), read_args() *)
Main ==
    /\ pc = "main"
    /\ LET c == IF master_ini.exists
                THEN read_ini(self, Packages, master_ini.lines, TRUE)
                ELSE [self |-> self, Packages |-> Packages]
       IN  /\ self' = [c.self EXCEPT !.archive = "zip" \in argv,
                                     !.run = "build" \notin argv]
           /\ Packages' = c.Packages
    /\ pc' = "discover"
    /\ UNCHANGED <<WIN, argv, err, diskVars, iniVars, scanVars, mergeVars, distVars>>

(* discover() up to its loop: get_appname() and the first more_to_do() *)
GetAppname ==
    /\ pc = "discover"
    /\ LET c == IF ini.exists
                THEN read_ini(self, Packages, ini.lines, FALSE)
                ELSE [self |-> self, Packages |-> Packages, err |-> None]
           me == IF c.self.appname # None THEN c.self
                 ELSE [c.self EXCEPT !.appname =
                          IF Len(valas) = 1 THEN "stem" ELSE ""]
           more == more_to_do(me, c.Packages, WIN)
       IN  /\ Packages' = c.Packages
           /\ IF c.err # None
              THEN /\ self' = c.self
                   /\ err' = c.err
                   /\ pc' = "crashed"
                   /\ UNCHANGED <<pkg_rx, scanned>>
              ELSE IF valas = << >>
              THEN /\ self' = c.self
                   /\ err' = "Error"
                   /\ pc' = "exit"
                   /\ UNCHANGED <<pkg_rx, scanned>>
              ELSE /\ self' = me
                   /\ err' = None
                   /\ pkg_rx' = IF more THEN DOMAIN c.Packages ELSE pkg_rx
                   /\ scanned' = [begun |-> TRUE, Packages |-> c.Packages,
                                  version |-> me.version, more |-> more]
                   /\ pc' = IF more THEN "scan_open" ELSE "merge"
    /\ UNCHANGED <<WIN, argv, diskVars, iniVars, vi, li, opened, tested, mergeVars,
                   distVars>>

(* `for vala in self.valas: with open(vala)`: the next file, or the end *)
OpenFile ==
    /\ pc = "scan_open"
    /\ IF vi < Len(valas)
       THEN vi' = vi + 1 /\ li' = 0 /\ opened' = Append(opened, vi + 1)
            /\ pc' = "scan_line"
       ELSE pc' = "merge" /\ UNCHANGED <<vi, li, opened>>
    /\ UNCHANGED <<self, Packages, WIN, argv, err, diskVars, iniVars, pkg_rx, tested,
                   scanned, mergeVars, distVars>>

(* `for line in file:` with a line left and more to do: the tests on it *)
ScanLine ==
    /\ pc = "scan_line"
    /\ li < Len(valas[vi])
    /\ more_to_do(self, Packages, WIN)
    /\ LET s == scan_line([self |-> self, Packages |-> Packages, pkg_rx |-> pkg_rx,
                           err |-> None], valas[vi][li + 1])
       IN  /\ self' = s.self
           /\ Packages' = s.Packages
           /\ pkg_rx' = s.pkg_rx
           /\ err' = s.err
           /\ pc' = IF s.err # None THEN "crashed" ELSE pc
    /\ li' = li + 1
    /\ tested' = tested \cup {<<vi, li + 1>>}
    /\ UNCHANGED <<WIN, argv, diskVars, iniVars, vi, opened, scanned, mergeVars,
                   distVars>>

(* a line left but nothing more to do: `break`, then `break` again *)
ScanBreak ==
    /\ pc = "scan_line"
    /\ li < Len(valas[vi])
    /\ ~more_to_do(self, Packages, WIN)
    /\ pc' = after_file(FALSE)
    /\ UNCHANGED <<self, Packages, WIN, argv, err, diskVars, iniVars, scanVars,
                   mergeVars, distVars>>

(* no line left in the file *)
EndOfFile ==
    /\ pc = "scan_line"
    /\ li = Len(valas[vi])
    /\ pc' = after_file(more_to_do(self, Packages, WIN))
    /\ UNCHANGED <<self, Packages, WIN, argv, err, diskVars, iniVars, scanVars,
                   mergeVars, distVars>>

(* vb.ini exists: maybe_update_ini(ini) *)
UpdateIni ==
    /\ pc = "merge"
    /\ ini.exists
    /\ LET new == maybe_update_ini(self, Packages, ini.lines) IN
          /\ old_ini' = ini.lines
          /\ computed' = new
          /\ IF new # ini.lines
             THEN ini' = [ini EXCEPT !.lines = new] /\ writes' = writes + 1
             ELSE UNCHANGED <<ini, writes>>
    /\ pc' = "build"
    /\ UNCHANGED <<self, Packages, WIN, argv, err, master_ini, valas, iniVars,
                   scanVars, run_no, distVars>>

(* vb.ini does not exist: make_ini(ini) *)
MakeIni ==
    /\ pc = "merge"
    /\ ~ini.exists
    /\ old_ini' = << >>
    /\ computed' = make_ini(self, Packages)
    /\ ini' = [exists |-> TRUE, lines |-> make_ini(self, Packages)]
    /\ writes' = writes + 1
    /\ pc' = "build"
    /\ UNCHANGED <<self, Packages, WIN, argv, err, master_ini, valas, iniVars,
                   scanVars, run_no, distVars>>

(* The program is run again on the project: a fresh process. *)
NewRun ==
    /\ pc = "build"
    /\ run_no = 1
    /\ run_no' = 2
    /\ self' = NewModel
    /\ Packages' = DefaultPackages
    /\ pc' = "main"
    /\ pkg_rx' = {} /\ vi' = 0 /\ li' = 0 /\ opened' = << >> /\ tested' = {}
    /\ scanned' = NotScanned
    /\ writes' = 0 /\ old_ini' = << >> /\ computed' = << >>
    /\ UNCHANGED <<WIN, argv, err, diskVars, iniVars, distVars>>

NextDiscover ==
    \/ Main
    \/ GetAppname
    \/ OpenFile
    \/ ScanLine
    \/ ScanBreak
    \/ EndOfFile
    \/ UpdateIni
    \/ MakeIni
    \/ NewRun

SpecDiscover == InitDiscover /\ [][NextDiscover]_vars

(***************************************************************************)
(* build() and the rest of main().  The inputs are the exit codes of the   *)
(* external programs, the files that exist, and the dependency lister's    *)
(* output.  A lister line is [shape, dll]: whether it matches              *)
(* `^\s*\S+\s=>\s(?P<dll>\S+)`, and the components of the captured path.   *)
(* The lister prints paths in the toolchain's notation: "/mingw64/bin/x"   *)
(* is below the toolchain's root, "/c/..." is a path on drive C:.          *)
(***************************************************************************)
MaxLddLines == 2

LddLines ==
    {[shape |-> TRUE, dll |-> <<"mingw64", "bin", "libgtk-3-0.dll">>],
     [shape |-> TRUE, dll |-> <<"c", "Windows", "System32", "KERNEL32.DLL">>],
     [shape |-> TRUE, dll |-> <<"c", "tools", "mingw64", "bin", "libz.dll">>],
     [shape |-> TRUE, dll |-> <<"usr", "bin", "msys-2.0.dll">>],
     [shape |-> FALSE, dll |-> << >>]}

(* 'mingw64' in dll *)
HasMingw64(dll) == \E i \in DOMAIN dll : dll[i] = "mingw64"

(* copy_optional_win_file: the name copied for `filename` when the files   *)
(* in `present` exist, or None.                                            *)
WithSuffix(name, suffix) ==
    CASE name = "README" /\ suffix = ".txt" -> "README.txt"
      [] name = "README" /\ suffix = ".md" -> "README.md"
      [] name = "LICENSE" /\ suffix = ".txt" -> "LICENSE.txt"
      [] name = "LICENSE" /\ suffix = ".md" -> "LICENSE.md"
      [] name = "dist/app.exe" /\ suffix = "" -> "dist/app"
      [] name = "dist/app" /\ suffix = ".zip" -> "dist/app.zip"
      [] name = "dist/app-1.0" /\ suffix = ".zip" -> "dist/app-1.zip"
      [] OTHER -> name

copy_optional_win_file(filename, present) ==
    LET name == IF filename \notin present /\ filename \in {"README", "LICENSE"}
                THEN IF WithSuffix(filename, ".txt") \in present
                     THEN WithSuffix(filename, ".txt")
                     ELSE WithSuffix(filename, ".md")
                ELSE filename
    IN  IF name \in present THEN name ELSE None

(* str(name.parent) when it is not '.', else None *)
ParentOf(name) == IF name = "docs/guide.txt" THEN "docs" ELSE None

(* The ExtraFiles entries a vb.ini can give besides the defaults: what     *)
(* glob.glob returned for the line, so files that exist.                   *)
GlobbedExtras == {"app.zip", "docs/guide.txt"}

(* maybe_copy_extra_win_files: the paths below ./dist after it *)
maybe_copy_extra_win_files(extra_files, present) ==
    LET names == {copy_optional_win_file(extra_files[i], present) :
                     i \in DOMAIN extra_files} \ {None}
    IN  names \cup ({ParentOf(n) : n \in names} \ {None})

(* pathlib: Path(p).name *)
PathName(p) ==
    CASE p = "dist/app" -> "app"
      [] p = "dist/app.exe" -> "app.exe"
      [] OTHER -> p

(* f'{target.name}-{self.version}' *)
WithVersion(name, version) ==
    CASE name = "app" /\ version = "1.0" -> "app-1.0"
      [] OTHER -> name

(* pathlib: target.with_name(name) *)
WithName(p, name) ==
    CASE p = "dist/app" /\ name = "app-1.0" -> "dist/app-1.0"
      [] OTHER -> p

(* pathlib: p.relative_to(dist), or None when p is not below ./dist *)
RelativeToDist(p) ==
    CASE p = "dist/app.zip" -> "app.zip"
      [] p = "dist/app-1.zip" -> "app-1.zip"
      [] p = "dist/app.exe" -> "app.exe"
      [] OTHER -> None

(* the test left out: every path is taken to differ from the archive *)
samefile_never(target, filename) == FALSE

(* target.samefile(filename), filename a path below ./dist: a fresh ./dist *)
(* has no links, so the same file is the same path.                        *)
samefile(target, filename) == RelativeToDist(target) = filename

(* dist.glob('**/*') yields the files and the directories below ./dist;   *)
(* zipfile names the entry of a directory with a trailing "/".            *)
(* win_zip(), given the paths below ./dist: the archive's path, the paths  *)
(* below ./dist once ZipFile(target, 'w') has created it, and the entries  *)
(* written, <<name, rel>> for the entry name/rel.                          *)
win_zip(me, files) ==
    LET stem == WithSuffix(me.appname, "")
        versioned == me.version # None /\ me.version # ""
        name == IF versioned THEN WithVersion(PathName(stem), me.version)
                ELSE PathName(stem)
        target == WithSuffix(IF versioned THEN WithName(stem, name) ELSE stem,
                             ".zip")
        below == files \cup ({RelativeToDist(target)} \ {None})
    IN  [made |-> TRUE,
         target |-> target,
         dist |-> below,
         entries |-> {<<name, f>> : f \in {g \in below : ~samefile(target, g)}}]

(* the lister's return code is not looked at *)
ldd_failed_ignored(rc) == FALSE

(* `if reply.returncode != 0: raise Error(...)` *)
ldd_failed(rc) == rc # 0

InitDist ==
    /\ WIN \in BOOLEAN
    /\ argv \in SUBSET {"zip", "build"}
    /\ \E v \in {None, "1.0"},
          x \in {NewModel.extra_files, <<"README", "app.zip">>, <<"docs/guide.txt">>} :
          self = [NewModel EXCEPT !.appname = "app", !.version = v,
                                  !.extra_files = x,
                                  !.archive = "zip" \in argv,
                                  !.run = "build" \notin argv,
                                  !.packages = [n \in {"Gtk"} |-> "gtk+-3.0"]]
    /\ Packages = [n \in {"Gee", "Gio"} |-> DefaultPackages[n]]
    /\ master_ini = NoFile
    /\ ini = [exists |-> TRUE,
              lines |-> make_ini(self, Packages)]
    /\ valas = << <<"Gtk">> >>
    /\ pc = "build"
    /\ err = None
    /\ category = "GENERAL" /\ line = Blank /\ nread = 0 /\ since = << >>
    /\ IdleScan /\ IdleMerge /\ IdleDist

(* build(): the compiler is run; on Windows make_win_dist() follows *)
Build ==
    /\ pc = "build"
    /\ \E rc \in {0, 1} :
          IF rc # 0
          THEN err' = "Error" /\ pc' = "exit" /\ UNCHANGED <<self, exe>>
          ELSE /\ exe' = "root"
               /\ err' = None
               /\ IF WIN
                  THEN pc' = "win_dist" /\ self' = self
                  ELSE pc' = "zip" /\ self' = [self EXCEPT !.appname = "./app"]
    /\ UNCHANGED <<Packages, WIN, argv, diskVars, iniVars, scanVars, mergeVars, dist,
                   ldd, dll_i, copied, steps, zip>>

(* make_win_dist() up to the lister: the icon, a fresh ./dist, the extra   *)
(* files                                                                   *)
PrepareDist ==
    /\ pc = "win_dist"
    /\ self' = [self EXCEPT !.appname = "app.exe"]
    /\ \E present \in SUBSET {"README", "README.md", "LICENSE.txt"} :
          dist' = maybe_copy_extra_win_files(self.extra_files,
                                             present \cup GlobbedExtras)
    /\ pc' = "ldd"
    /\ UNCHANGED <<Packages, WIN, argv, err, diskVars, iniVars, scanVars, mergeVars,
                   exe, ldd, dll_i, copied, steps, zip>>

(* subprocess.run(['ldd', self.appname]) and the test of its return code *)
RunLdd ==
    /\ pc = "ldd"
    /\ \E rc \in {0, 1}, out \in SeqsUpTo(LddLines, MaxLddLines) :
          /\ ldd' = [ran |-> TRUE, rc |-> rc, at |-> exe,
                     out |-> IF rc = 0 THEN out ELSE << >>]
          /\ IF ldd_failed(rc)
             THEN err' = "Error" /\ pc' = "exit"
             ELSE err' = None /\ pc' = "move"
    /\ UNCHANGED <<self, Packages, WIN, argv, diskVars, iniVars, scanVars, mergeVars,
                   exe, dist, dll_i, copied, steps, zip>>

(* shutil.move(self.appname, dist) *)
MoveExe ==
    /\ pc = "move"
    /\ exe' = "dist"
    /\ dist' = dist \cup {self.appname}
    /\ pc' = "copy_dlls"
    /\ UNCHANGED <<self, Packages, WIN, argv, err, diskVars, iniVars, scanVars,
                   mergeVars, ldd, dll_i, copied, steps, zip>>

(* maybe_copy_win_dlls: one line of the lister's output.  shutil.copy2     *)
(* raises FileNotFoundError when self.winmsys2 + dll does not exist.       *)
CopyDll ==
    /\ pc = "copy_dlls"
    /\ dll_i < Len(ldd.out)
    /\ dll_i' = dll_i + 1
    /\ LET l == ldd.out[dll_i + 1] IN
       IF l.shape /\ HasMingw64(l.dll)
       THEN \E exists \in BOOLEAN :
               IF exists
               THEN /\ copied' = copied \cup {l.dll}
                    /\ dist' = dist \cup {l.dll[Len(l.dll)]}
                    /\ UNCHANGED <<pc, err>>
               ELSE /\ err' = "FileNotFoundError"
                    /\ pc' = "crashed"
                    /\ UNCHANGED <<copied, dist>>
       ELSE UNCHANGED <<copied, dist, pc, err>>
    /\ UNCHANGED <<self, Packages, WIN, argv, diskVars, iniVars, scanVars, mergeVars,
                   exe, ldd, steps, zip>>

(* the lister's output is used up: make_win_dist() and build() return *)
EndCopy ==
    /\ pc = "copy_dlls"
    /\ dll_i = Len(ldd.out)
    /\ self' = [self EXCEPT !.appname = "dist/app.exe"]
    /\ pc' = "zip"
    /\ UNCHANGED <<Packages, WIN, argv, err, diskVars, iniVars, scanVars, mergeVars,
                   distVars>>

(* main(): `if WIN and model.archive: model.win_zip()` *)
WinZip ==
    /\ pc = "zip"
    /\ IF WIN /\ self.archive
       THEN LET z == win_zip(self, dist) IN
               /\ steps' = steps \cup {"zip"}
               /\ zip' = [made |-> z.made, target |-> z.target,
                          entries |-> z.entries]
               /\ dist' = z.dist
       ELSE UNCHANGED <<steps, zip, dist>>
    /\ pc' = "run"
    /\ UNCHANGED <<self, Packages, WIN, argv, err, diskVars, iniVars, scanVars,
                   mergeVars, exe, ldd, dll_i, copied>>

(* main(): `if model.run: model.run_exe()` *)
RunExe ==
    /\ pc = "run"
    /\ steps' = IF self.run THEN steps \cup {"run"} ELSE steps
    /\ pc' = "exit"
    /\ UNCHANGED <<self, Packages, WIN, argv, err, diskVars, iniVars, scanVars,
                   mergeVars, exe, dist, ldd, dll_i, copied, zip>>

NextDist ==
    \/ Build
    \/ PrepareDist
    \/ RunLdd
    \/ MoveExe
    \/ CopyDll
    \/ EndCopy
    \/ WinZip
    \/ RunExe

SpecDist == InitDist /\ [][NextDist]_vars

(***************************************************************************)
(* Properties.                                                             *)
(***************************************************************************)
(* The Packages section of a settings-file content: the lines after the    *)
(* first [Packages] header.                                                *)
SectionStart(lines) ==
    LET hs == {i \in DOMAIN lines : IsPackagesHeader(lines[i])} IN
    IF hs = {} THEN Len(lines) + 1 ELSE CHOOSE i \in hs : \A j \in hs : i <= j

Section(lines) == {i \in DOMAIN lines : i > SectionStart(lines)}

(* The names that the scan of this run moved out of the registry. *)
Discovered == (DOMAIN scanned.Packages) \ (DOMAIN Packages)

ScanOver == pc \in {"merge", "build"}

(***************************************************************************)
(* C1.  Idempotent merge: when the program is run a second time on the     *)
(* unchanged project, from the same initial registry, the content that     *)
(* maybe_update_ini computes is identical to vb.ini on disk and nothing is *)
(* written.                                                                *)
(***************************************************************************)
C1_SecondRunWritesNothing ==
    (run_no = 2 /\ pc = "build") => (computed = old_ini /\ writes = 0)

(***************************************************************************)
(* C2.  Discovery correctness: every package that was pending when the     *)
(* scan started and whose name is a word of a line the scan reached is,    *)
(* after the scan, in self.packages with its registry resolver id and no   *)
(* longer pending, whatever else the line contains.                        *)
(***************************************************************************)
C2_NamedPackagesDiscovered ==
    ScanOver =>
        \A n \in DOMAIN scanned.Packages :
            \A t \in tested :
                (\E i \in DOMAIN valas[t[1]][t[2]] : valas[t[1]][t[2]][i] = n) =>
                    /\ n \in DOMAIN self.packages
                    /\ self.packages[n] = scanned.Packages[n]
                    /\ n \notin DOMAIN Packages

(***************************************************************************)
(* C3.  Early exit: once the registry is empty and the version is not      *)
(* needed or already found, discover() opens no further file and tests no  *)
(* further line; when that holds before the scan starts, no file is opened *)
(* at all.                                                                 *)
(***************************************************************************)
NothingMoreToDo == ~more_to_do(self, Packages, WIN)

C3_EarlyExit ==
    /\ [][(pc \in {"scan_open", "scan_line"} /\ NothingMoreToDo) =>
             (opened' = opened /\ tested' = tested)]_vars
    /\ [](scanned.begun /\ ~scanned.more => opened = << >> /\ tested = {})

C3_Witness ==
    /\ pc = "merge"
    /\ scanned.more
    /\ NothingMoreToDo
    /\ Len(valas) = 2 /\ opened = <<1>> /\ Len(valas[2]) > 0
    /\ li < Len(valas[1])

(***************************************************************************)
(* C4.  Version extraction: with no version set before the scan, the       *)
(* version after the scan is the literal of the first line, in file then   *)
(* line order among the lines the scan reached, that matches the version   *)
(* pattern (None when no reached line matches).                            *)
(***************************************************************************)
Before(t, u) == t[1] < u[1] \/ (t[1] = u[1] /\ t[2] < u[2])

VersionLines == {t \in tested : VersionSearch(valas[t[1]][t[2]]) # None}

FirstVersion ==
    IF VersionLines = {} THEN None
    ELSE LET t == CHOOSE t \in VersionLines :
                      \A u \in VersionLines \ {t} : Before(t, u)
         IN  VersionSearch(valas[t[1]][t[2]])

C4_FirstVersionWins ==
    (ScanOver /\ scanned.begun /\ scanned.version = None) =>
        self.version = FirstVersion

(***************************************************************************)
(* C5.  Unused-package preservation: a commented record `# name = r` of    *)
(* the old Packages section whose name the scan did not discover is still  *)
(* in the section that maybe_update_ini produces, commented and with r,    *)
(* and that section has no active record for the name.                     *)
(***************************************************************************)
C5_UnusedPreserved ==
    (pc = "build" /\ old_ini # << >>) =>
        \A i \in Section(old_ini) :
            (old_ini[i].k = "item" /\ old_ini[i].h # ""
             /\ old_ini[i].key \notin Discovered) =>
                /\ \E j \in Section(computed) :
                      /\ computed[j].k = "item" /\ computed[j].h # ""
                      /\ computed[j].key = old_ini[i].key
                      /\ computed[j].val = old_ini[i].val
                /\ ~\E j \in Section(computed) :
                      /\ computed[j].k = "item" /\ computed[j].h = ""
                      /\ computed[j].key = old_ini[i].key

(***************************************************************************)
(* C6.  Local-override exclusivity: no name is at once a key of the        *)
(* registry and a key of self.packages; so a name with a local value is    *)
(* never searched for in source and never emitted as a commented record.   *)
(***************************************************************************)
C6_NoNameInBoth == (DOMAIN Packages) \cap (DOMAIN self.packages) = {}

C6_NeverSearched ==
    (pc = "scan_line" /\ li < Len(valas[vi]) /\ more_to_do(self, Packages, WIN)) =>
        pkg_rx \cap (DOMAIN self.packages) = {}

C6_NeverCommented ==
    pc = "build" =>
        ~\E j \in Section(computed) :
            /\ computed[j].k = "item" /\ computed[j].h # ""
            /\ computed[j].key \in DOMAIN self.packages

C6_LocalOverrideExclusive ==
    /\ C6_NoNameInBoth
    /\ C6_NeverSearched
    /\ C6_NeverCommented

(***************************************************************************)
(* C7.  Reading vb.ini (master=False) completes without error, and every   *)
(* active `key = value` line of its Packages section leaves the            *)
(* title-cased key a local override with that value and absent from the    *)
(* registry, whether or not the key was in the registry before the line.   *)
(* Stated on the state right after the line was read.                      *)
(***************************************************************************)
LocalPackagesLineRead ==
    /\ pc \in {"read_local", "crashed"}
    /\ nread > 0
    /\ line.k = "item" /\ line.h = ""
    /\ category = "PACKAGES"

C7_LocalPackagesLine ==
    LocalPackagesLineRead =>
        LET key == Title(Casefold(line.key)) IN
        /\ err = None
        /\ key \in DOMAIN self.packages
        /\ self.packages[key] = line.val
        /\ key \notin DOMAIN Packages

(***************************************************************************)
(* C8.  Entering a category through a closed bracket header.  The claim    *)
(* as written: the content accumulated for the category is discarded, for  *)
(* Packages (the registry and the local overrides) as for the others.      *)
(***************************************************************************)
HeaderRead(name) ==
    /\ pc \in {"read_master", "read_local"}
    /\ nread > 0
    /\ line.k = "hdr" /\ line.val = "]"
    /\ Casefold(line.key) = name

C8_EveryCategoryReset ==
    /\ HeaderRead("extrafiles") => self.extra_files = << >>
    /\ HeaderRead("apptemplate") => self.app_template = << >>
    /\ HeaderRead("guitemplate") => self.gui_template = << >>
    /\ HeaderRead("libtemplate") => self.lib_template = << >>
    /\ HeaderRead("packages") => Packages = EmptyDict /\ self.packages = EmptyDict

(***************************************************************************)
(* C8 as amended: entering ExtraFiles or a template category discards that *)
(* category's content, which afterwards is exactly what the lines that     *)
(* followed the header put there; entering Packages discards nothing: the  *)
(* registry and the local overrides are the same after the header as       *)
(* before it.                                                              *)
(***************************************************************************)
RECURSIVE ExtraOf(_)
ExtraOf(ls) ==
    IF ls = << >> THEN << >>
    ELSE IF Head(ls).k \in {"hdr", "blank"} \/ Head(ls).h \in {"#", "# "}
    THEN ExtraOf(Tail(ls))
    ELSE Glob(Head(ls)) \o ExtraOf(Tail(ls))

NotBracket(l) == l.k # "hdr"

TemplateOf(ls) == SelectSeq(ls, NotBracket)

ContentIsWhatFollows ==
    /\ category = "EXTRA_FILES" => self.extra_files = ExtraOf(since)
    /\ category = "APP_TEMPLATE" => self.app_template = TemplateOf(since)
    /\ category = "GUI_TEMPLATE" => self.gui_template = TemplateOf(since)
    /\ category = "LIB_TEMPLATE" => self.lib_template = TemplateOf(since)

EntersPackages ==
    /\ nread' = nread + 1
    /\ line'.k = "hdr" /\ line'.val = "]"
    /\ Casefold(line'.key) = "packages"

C8_ResetExceptPackages ==
    /\ []ContentIsWhatFollows
    /\ [][EntersPackages =>
             Packages' = Packages /\ self'.packages = self.packages]_vars

C8_Witness ==
    /\ pc = "read_local"
    /\ HeaderRead("extrafiles")
    /\ category = "EXTRA_FILES"
    /\ self.extra_files = << >>

(***************************************************************************)
(* C9.  Dependency filtering: a library named by a lister line of the      *)
(* `name => path` shape is copied into ./dist only if its path lies under  *)
(* the toolchain runtime root; a line whose path is elsewhere (on the      *)
(* drive, "/c/...") is never copied.                                       *)
(***************************************************************************)
UnderRoot(dll) == dll # << >> /\ dll[1] # "c"

C9_OnlyUnderRoot == \A dll \in copied : UnderRoot(dll)

(***************************************************************************)
(* C10.  The binary is moved into ./dist only after the lister has run     *)
(* successfully against it at its original path; when the lister returns   *)
(* non-zero an Error is raised, the binary stays where it was, no library  *)
(* is copied and neither the archive step nor the run step is executed.    *)
(***************************************************************************)
C10_MoveAfterLister ==
    /\ exe = "dist" => (ldd.ran /\ ldd.rc = 0 /\ ldd.at = "root")
    /\ (ldd.ran /\ ldd.rc # 0) =>
          /\ err = "Error" /\ pc = "exit"
          /\ exe = "root"
          /\ copied = {}
          /\ steps = {}

C10_Witness ==
    /\ ldd.ran /\ ldd.rc # 0
    /\ pc = "exit"
    /\ self.archive /\ self.run

(***************************************************************************)
(* C12.  When the registry is empty while the version is still needed,     *)
(* discover() scans the remaining lines for the version only: the test of  *)
(* a line claims no name (self.packages and the registry stay as they      *)
(* are), update_packages is not called for a name that is not pending (no  *)
(* KeyError), and the scan goes on to the merge.                           *)
(***************************************************************************)
VersionOnly ==
    /\ pc = "scan_line"
    /\ DOMAIN Packages = {}
    /\ more_to_do(self, Packages, WIN)

C12_VersionOnlyScan ==
    [][VersionOnly =>
          /\ err' = None
          /\ pc' # "crashed"
          /\ self'.packages = self.packages
          /\ Packages' = Packages]_vars

(***************************************************************************)
(* C13.  In the Packages section that maybe_update_ini or make_ini         *)
(* produces, every package name has at most one record, active or          *)
(* commented.                                                              *)
(***************************************************************************)
RecordsOf(lines, name) ==
    {i \in Section(lines) : lines[i].k = "item" /\ lines[i].key = name}

NamesOf(lines) == {lines[i].key : i \in {j \in Section(lines) : lines[j].k = "item"}}

C13_OneRecordPerName ==
    pc = "build" =>
        \A n \in NamesOf(computed) : Cardinality(RecordsOf(computed, n)) <= 1

(***************************************************************************)
(* C14.  After discover(), for every package that build() passes to the    *)
(* compiler, vb.ini on disk has an active record for that package whose    *)
(* resolver id is the one passed to the compiler.                          *)
(***************************************************************************)
C14_FileAgreesWithCompiler ==
    (pc = "build" /\ err = None) =>
        \A n \in DOMAIN self.packages :
            \E i \in Section(ini.lines) :
                /\ ini.lines[i].k = "item" /\ ini.lines[i].h = ""
                /\ Title(ini.lines[i].key) = n
                /\ ini.lines[i].val = self.packages[n]

(***************************************************************************)
(* C11.  Archive self-exclusion: win_zip writes the archive below ./dist,  *)
(* the directory it archives; the archive has no entry for itself, and     *)
(* every other path below ./dist has the entry                             *)
(* <appName>[-<version>]/<path relative to ./dist>.                        *)
(***************************************************************************)
AppName == "app"

EntryPrefix ==
    IF self.version = None THEN <<AppName>> ELSE <<AppName, "-", self.version>>

PrefixOf(name) ==
    CASE name = "app" -> <<"app">>
      [] name = "app-1.0" -> <<"app", "-", "1.0">>
      [] OTHER -> <<name>>

C11_ArchiveExcludesItself ==
    zip.made =>
        LET archive == RelativeToDist(zip.target) IN
        /\ archive # None
        /\ archive \in dist
        /\ \A e \in zip.entries : e[2] # archive
        /\ \A f \in dist \ {archive} :
              \E e \in zip.entries : PrefixOf(e[1]) = EntryPrefix /\ e[2] = f
        /\ \A e \in zip.entries : PrefixOf(e[1]) = EntryPrefix /\ e[2] \in dist

C11_Witness ==
    /\ zip.made
    /\ self.version = "1.0"
    /\ copied # {}
    /\ "docs/guide.txt" \in dist
    /\ Cardinality(zip.entries) >= 4

====
